---- MODULE Spec2Model ----
(***************************************************************************)
(* A model of the project index cache of typeref-mcp:                      *)
(*   - MemoryCache (src/src/core/MemoryCache.ts): the hot tier,            *)
(*   - DiskCache (src/src/core/DiskCache.ts) and ParquetCache              *)
(*     (src/unnamed/part_003): the two cold stores,                        *)
(*   - BaseLanguageAdapter / TypeScriptAdapter: the coordinator.           *)
(* Time is counted in units of 5 minutes (CLEANUP_INTERVAL = 1 unit).      *)
(* Strings that the code inspects character by character (cache keys,     *)
(* glob patterns) are sequences of one-character strings.                  *)
(***************************************************************************)
EXTENDS Integers, Sequences, FiniteSets, TLC

VARIABLES
  cache,          \* MemoryCache.cache: the Map's entries in insertion order
  stats,          \* MemoryCache.stats: hits, misses, evictions
  now,            \* Date.now()
  cleanupInterval,\* MemoryCache.cleanupInterval: the sweep's timer, "active" or "cleared"
  impl,           \* the cold store in use: "disk" (DiskCache) or "parquet" (ParquetCache)
  accessible,     \* the roots whose directory exists and can be read
  files,          \* per root, the source files on disk: path -> mtime (0: no such file)
  store,          \* per root, the content of the cache directory <root>/.typeref
  save,           \* the saveProjectIndex call in flight, between its awaits
  produced,       \* per root, the index the analyzer produced last and the files it read
  hist,           \* history per root: the last save and the files it went by
  projectIndexes, \* BaseLanguageAdapter.projectIndexes: root -> index
  projects,       \* TypeScriptAdapter.projects: root -> the files its Project was created over
  isInitialized,  \* BaseLanguageAdapter.isInitialized
  watching,       \* SimpleFileWatcher.watchers: the roots watched
  pending,        \* per root, the watcher's event not yet delivered
  calls,          \* per caller, its indexProject call between its awaits
  signalled,      \* history per root: a signal was handled, no build ended since
  obs             \* the last operation's observable result

hotVars == <<cache, stats, now, cleanupInterval>>
coldVars == <<accessible, impl, files, store, save, produced, hist>>
adapterVars ==
  <<projectIndexes, projects, isInitialized, watching, pending, calls, signalled>>
vars == <<cache, stats, now, cleanupInterval, accessible, impl, files, store, save, produced,
          hist, projectIndexes, projects, isInitialized, watching, pending, calls, signalled,
          obs>>

----------------------------------------------------------------------------
(* Bounds of the model *)

MaxTime == 2
MaxCount == 1
MaxMtime == 2
MaxCalls == 2

(* MemoryCache's constructor arguments *)
maxSize == 2
defaultTTL == 2

----------------------------------------------------------------------------
(* Values shared by all parts *)

Absent == [kind |-> "absent"]
Some(v) == [kind |-> "some", val |-> v]
NoObs == [op |-> "none"]

RECURSIVE SeqToSet(_)
SeqToSet(s) == IF s = <<>> THEN {} ELSE {Head(s)} \cup SeqToSet(Tail(s))

RECURSIVE Filter(_, _)
(* the entries of c whose key is not in ks, order kept *)
Filter(c, ks) ==
  IF c = <<>> THEN <<>>
  ELSE IF Head(c).key \in ks THEN Filter(Tail(c), ks)
       ELSE <<Head(c)>> \o Filter(Tail(c), ks)

----------------------------------------------------------------------------
(* MemoryCache *)

(* the keys: one character, two characters, and one with a line feed *)
HotKeys == { <<"a">>, <<"a", "b">>, <<"a", "\n">> }
(* the glob patterns invalidate is called with *)
Patterns == { <<"a">>, <<"a", "*">>, <<"a", "?">> }
OmittedTTL == [given |-> FALSE, val |-> 0]
GivenTTL(t) == [given |-> TRUE, val |-> t]
(* the (key, value, ttl) arguments that set is called with *)
SetInputs ==
  { << <<"a">>, "v1", OmittedTTL >>, << <<"a">>, "v2", GivenTTL(0) >>,
    << <<"a", "b">>, "v1", GivenTTL(1) >>, << <<"a", "b">>, "v2", OmittedTTL >>,
    << <<"a", "\n">>, "v2", OmittedTTL >>, << <<"a", "\n">>, "v1", GivenTTL(1) >> }

CacheKeys(c) == { c[i].key : i \in 1..Len(c) }
IndexOf(c, k) == IF k \in CacheKeys(c) THEN CHOOSE i \in 1..Len(c) : c[i].key = k ELSE 0
Expired(e, t) == t > e.timestamp + e.ttl

(* get(key): what it returns and the cache and counters it leaves *)
MutGetKeepsExpired(c, s, t, key) ==
  LET i == IndexOf(c, key) IN
  IF i = 0 THEN [cache |-> c, stats |-> [s EXCEPT !.misses = @ + 1], ret |-> Absent]
  ELSE IF Expired(c[i], t)
       THEN [cache |-> c, stats |-> [s EXCEPT !.misses = @ + 1], ret |-> Absent]
       ELSE [cache |-> c, stats |-> [s EXCEPT !.hits = @ + 1], ret |-> Some(c[i].data)]

get(c, s, t, key) ==
  LET i == IndexOf(c, key) IN
  IF i = 0 THEN [cache |-> c, stats |-> [s EXCEPT !.misses = @ + 1], ret |-> Absent]
  ELSE IF Expired(c[i], t)
       THEN [cache |-> Filter(c, {key}), stats |-> [s EXCEPT !.misses = @ + 1], ret |-> Absent]
       ELSE [cache |-> c, stats |-> [s EXCEPT !.hits = @ + 1], ret |-> Some(c[i].data)]

RECURSIVE OldestScan(_, _, _, _)
(* evictOldest's loop from entry i on: the key it ends with (<<>>: none) *)
OldestScan(c, i, oldestKey, oldestTime) ==
  IF i > Len(c) THEN oldestKey
  ELSE IF c[i].timestamp < oldestTime
       THEN OldestScan(c, i + 1, c[i].key, c[i].timestamp)
       ELSE OldestScan(c, i + 1, oldestKey, oldestTime)

evictOldest(c, s, t) ==
  IF Len(c) = 0 THEN [cache |-> c, stats |-> s]
  ELSE LET oldestKey == OldestScan(c, 1, <<>>, t) IN
       IF oldestKey # <<>>
       THEN [cache |-> Filter(c, {oldestKey}), stats |-> [s EXCEPT !.evictions = @ + 1]]
       ELSE [cache |-> c, stats |-> s]

EffectiveTTL(ttl) == IF ttl.given /\ ttl.val # 0 THEN ttl.val ELSE defaultTTL

(* Map.set: an existing key keeps its place, a new key goes last *)
MapSet(c, e) ==
  LET i == IndexOf(c, e.key) IN
  IF i = 0 THEN Append(c, e) ELSE [c EXCEPT ![i] = e]

set(c, s, t, key, data, ttl) ==
  LET ev == IF Len(c) >= maxSize THEN evictOldest(c, s, t) ELSE [cache |-> c, stats |-> s]
      \* requested: the ttl argument as passed, kept for the history only
      entry == [key |-> key, data |-> data, timestamp |-> t, ttl |-> EffectiveTTL(ttl),
                requested |-> ttl]
  IN [cache |-> MapSet(ev.cache, entry), stats |-> ev.stats]

(* clear(): what it leaves *)
MutClearKeepsCounters(c, s) == [cache |-> <<>>, stats |-> [s EXCEPT !.evictions = 0]]

clear(c, s) == [cache |-> <<>>, stats |-> [hits |-> 0, misses |-> 0, evictions |-> 0]]

RECURSIVE evictOldestBatch(_, _, _)
(* evictOldestBatch(count): the entries sorted by timestamp (the sort is
   stable: of equal timestamps the earlier inserted comes first), the first
   count of them deleted *)
evictOldestBatch(c, s, count) ==
  IF count <= 0 \/ c = <<>> THEN [cache |-> c, stats |-> s]
  ELSE LET i == CHOOSE j \in 1..Len(c) :
                  /\ \A k \in 1..Len(c) : c[j].timestamp <= c[k].timestamp
                  /\ \A k \in 1..(j - 1) : c[k].timestamp # c[j].timestamp
       IN evictOldestBatch(Filter(c, {c[i].key}), [s EXCEPT !.evictions = @ + 1], count - 1)

(* Math.floor(this.maxSize * 0.8) *)
HighWaterMark == (maxSize * 8) \div 10

(* performCleanup(): the expired entries deleted, then the oldest down to
   80% of maxSize *)
MutCleanupExpiredOnly(c, s, t) ==
  [cache |-> Filter(c, { c[i].key : i \in { j \in 1..Len(c) : Expired(c[j], t) } }),
   stats |-> s]

performCleanup(c, s, t) ==
  LET live == Filter(c, { c[i].key : i \in { j \in 1..Len(c) : Expired(c[j], t) } })
  IN IF Len(live) * 10 > maxSize * 8
     THEN evictOldestBatch(live, s, Len(live) - HighWaterMark)
     ELSE [cache |-> live, stats |-> s]

(* destroy(): clearInterval(this.cleanupInterval), then clear() *)
MutDestroyKeepsTimer(c, s, timer) ==
  [cache |-> clear(c, s).cache, stats |-> clear(c, s).stats, cleanupInterval |-> timer]

destroy(c, s, timer) ==
  [cache |-> clear(c, s).cache, stats |-> clear(c, s).stats, cleanupInterval |-> "cleared"]

----------------------------------------------------------------------------
(* The project on disk and the analyzer *)

Roots == { <<"p">> }
Paths == { "a.ts", "b.ts" }
NoFiles == [p \in Paths |-> 0]
(* the mtimes a file takes: a.ts is edited over time, b.ts is written once *)
MtimesOf(p) == IF p = "a.ts" THEN 1..MaxMtime ELSE {1}
Present(fs) == { p \in Paths : fs[p] # 0 }

(* What the analyzer extracts from each file of the fixture project: a.ts
   declares the documented interface A; b.ts declares the undocumented
   function f and imports a.ts. The file's mtime m stands for its content. *)
Location(p) == [filePath |-> p, line |-> 1, column |-> 1]
SymbolName(p) == IF p = "a.ts" THEN "A" ELSE "f"
extractSymbolsFromFile(p, m) ==
  IF p = "a.ts"
  THEN << [name |-> "A", kind |-> "interface", type |-> m, location |-> Location(p),
           documentation |-> "doc", isExported |-> TRUE] >>
  ELSE << [name |-> "f", kind |-> "function", type |-> m, location |-> Location(p),
           isExported |-> TRUE] >>
extractTypesFromFile(p, m) ==
  IF p = "a.ts"
  THEN << [name |-> "A", kind |-> "interface", properties |-> << m >>,
           location |-> Location(p)] >>
  ELSE << >>
extractDependencies(p) == IF p = "a.ts" THEN << >> ELSE << "a.ts" >>
ModuleInfoOf(p) ==
  [path |-> p, exports |-> << SymbolName(p) >>, imports |-> extractDependencies(p),
   dependencies |-> extractDependencies(p)]

(* buildProjectIndex over the source files fs, at time t *)
buildProjectIndex(fs, root, t) ==
  [projectPath |-> root,
   symbols |-> [n \in { SymbolName(p) : p \in Present(fs) } |->
                  extractSymbolsFromFile(CHOOSE p \in Present(fs) : SymbolName(p) = n,
                                         fs[CHOOSE p \in Present(fs) : SymbolName(p) = n])],
   types |-> [n \in { "A" : p \in Present(fs) \cap {"a.ts"} } |->
                extractTypesFromFile("a.ts", fs["a.ts"])[1]],
   modules |-> [p \in Present(fs) |-> ModuleInfoOf(p)],
   dependencies |-> [p \in Present(fs) |-> extractDependencies(p)],
   lastIndexed |-> t]

----------------------------------------------------------------------------
(* The cold stores: DiskCache and ParquetCache *)

CACHE_VERSION == "1.0.0"
Null == "<null>"

(* the cache directory <root>/.typeref: dir, the directory itself; layout,
   ParquetCache's sub-directories; then one field per file *)
EmptyDir ==
  [dir |-> FALSE, layout |-> FALSE, gitignore |-> FALSE, projectYml |-> Absent,
   cacheFile |-> Absent, metaFile |-> Absent,
   symbols |-> Absent, types |-> Absent, modules |-> Absent, dependencies |-> Absent,
   fileHashes |-> Absent, projectInfo |-> Absent]

(* getFileHashes: path -> mtime of every source file found *)
getFileHashes(fs) == [p \in Present(fs) |-> fs[p]]

(* JSON.stringify / JSON.parse of plain data *)
JsonStringify(x) == [json |-> x]
JsonParse(s) == s.json

(* a file whose bytes are no JSON text and no parquet file: it exists, and
   JSON.parse or parquetRead of it throws *)
Garbage == [kind |-> "garbage"]
Parses(file) == file.kind = "some"

(* the format version of another release of the program *)
OtherVersion == "0.9.0"

(* isCacheValid, after the existence checks: metadata against the files *)
MutHashesCountOnly(metadata, fs) ==
  /\ metadata.version = CACHE_VERSION
  /\ Cardinality(DOMAIN getFileHashes(fs)) = Cardinality(DOMAIN metadata.fileHashes)

MutHashesIgnoreVersion(metadata, fs) ==
  LET currentFileHashes == getFileHashes(fs)
      cachedFileHashes == metadata.fileHashes
  IN /\ Cardinality(DOMAIN currentFileHashes) = Cardinality(DOMAIN cachedFileHashes)
     /\ \A filePath \in DOMAIN currentFileHashes :
          /\ filePath \in DOMAIN cachedFileHashes
          /\ cachedFileHashes[filePath] = currentFileHashes[filePath]

HashesMatch(metadata, fs) ==
  LET currentFileHashes == getFileHashes(fs)
      cachedFileHashes == metadata.fileHashes
  IN /\ metadata.version = CACHE_VERSION
     /\ Cardinality(DOMAIN currentFileHashes) = Cardinality(DOMAIN cachedFileHashes)
     /\ \A filePath \in DOMAIN currentFileHashes :
          /\ filePath \in DOMAIN cachedFileHashes
          /\ cachedFileHashes[filePath] = currentFileHashes[filePath]

DiskIsCacheValid(d, fs) ==
  /\ d.metaFile # Absent
  /\ d.cacheFile # Absent
  /\ Parses(d.metaFile)
  /\ HashesMatch(JsonParse(d.metaFile.val), fs)

ParquetIsCacheValid(d, fs) ==
  /\ d.symbols # Absent /\ d.types # Absent /\ d.modules # Absent
  /\ d.dependencies # Absent /\ d.fileHashes # Absent /\ d.projectInfo # Absent
  /\ Parses(d.fileHashes)
  /\ HashesMatch(JsonParse(d.fileHashes.val), fs)

isCacheValid(im, d, fs) ==
  IF im = "disk" THEN DiskIsCacheValid(d, fs) ELSE ParquetIsCacheValid(d, fs)

(* DiskCache: the serializable object written to <hash>.json, and its load *)
DiskSerializable(index) ==
  [projectPath |-> index.projectPath, symbols |-> index.symbols, types |-> index.types,
   modules |-> index.modules, dependencies |-> index.dependencies,
   lastIndexed |-> index.lastIndexed]

DiskLoadProjectIndex(d, root) ==
  IF ~Parses(d.cacheFile) THEN Absent
  ELSE LET data == JsonParse(d.cacheFile.val) IN
       Some([projectPath |-> data.projectPath, symbols |-> data.symbols,
             types |-> data.types, modules |-> data.modules,
             dependencies |-> data.dependencies, lastIndexed |-> data.lastIndexed])

(* ParquetCache: maps flattened to rows; x || null for optional text *)
OrNull(r, f) == IF f \in DOMAIN r /\ r[f] # "" THEN r[f] ELSE Null
JsonOrNull(r, f) == IF f \in DOMAIN r THEN JsonStringify(r[f]) ELSE Null

RECURSIVE SetToSeq(_)
SetToSeq(S) == IF S = {} THEN << >>
               ELSE LET x == CHOOSE y \in S : TRUE IN << x >> \o SetToSeq(S \ {x})

RECURSIVE FlattenSymbols(_, _)
FlattenSymbols(symbols, names) ==
  IF names = << >> THEN << >>
  ELSE LET symbolName == Head(names)
           infos == symbols[symbolName]
       IN [i \in 1..Len(infos) |->
             [symbolName |-> symbolName, name |-> infos[i].name, kind |-> infos[i].kind,
              type |-> infos[i].type, location |-> JsonStringify(infos[i].location),
              documentation |-> OrNull(infos[i], "documentation"),
              isExported |-> infos[i].isExported,
              module |-> OrNull(infos[i], "module"),
              signature |-> OrNull(infos[i], "signature")]]
          \o FlattenSymbols(symbols, Tail(names))

symbolsToParquetData(symbols) == FlattenSymbols(symbols, SetToSeq(DOMAIN symbols))

typesToParquetData(types) ==
  LET names == SetToSeq(DOMAIN types) IN
  [i \in 1..Len(names) |->
     LET typeInfo == types[names[i]] IN
     [typeName |-> names[i], name |-> typeInfo.name, kind |-> typeInfo.kind,
      properties |-> JsonStringify(typeInfo.properties),
      methods |-> JsonOrNull(typeInfo, "methods"),
      extends |-> JsonOrNull(typeInfo, "extends"),
      implements |-> JsonOrNull(typeInfo, "implements"),
      location |-> JsonStringify(typeInfo.location),
      documentation |-> OrNull(typeInfo, "documentation"),
      typeParameters |-> JsonOrNull(typeInfo, "typeParameters")]]

modulesToParquetData(modules) ==
  LET ps == SetToSeq(DOMAIN modules) IN
  [i \in 1..Len(ps) |->
     [modulePath |-> ps[i], path |-> modules[ps[i]].path,
      exports |-> JsonStringify(modules[ps[i]].exports),
      imports |-> JsonStringify(modules[ps[i]].imports),
      dependencies |-> JsonStringify(modules[ps[i]].dependencies)]]

dependenciesToParquetData(dependencies) ==
  LET ps == SetToSeq(DOMAIN dependencies) IN
  [i \in 1..Len(ps) |->
     [fromModule |-> ps[i], toModules |-> JsonStringify(dependencies[ps[i]])]]

(* writeParquetFile: no rows, no write; the file keeps what it held *)
writeParquetFile(old, data) == IF Len(data) = 0 THEN old ELSE Some(data)

(* loadProjectIndex's reconstruction of the four maps from the rows *)
SymbolOfRow(row) ==
  [name |-> row.name, kind |-> row.kind, type |-> row.type,
   location |-> JsonParse(row.location), documentation |-> row.documentation,
   isExported |-> row.isExported, module |-> row.module, signature |-> row.signature]

RowsNamed(rows, n) == { i \in 1..Len(rows) : rows[i].symbolName = n }

RECURSIVE SymbolsOfRows(_, _)
(* the rows at the indices in is, in row order *)
SymbolsOfRows(rows, is) ==
  IF is = {} THEN << >>
  ELSE LET i == CHOOSE j \in is : \A k \in is : j <= k IN
       << SymbolOfRow(rows[i]) >> \o SymbolsOfRows(rows, is \ {i})

OptionalParsed(row, f) == IF row[f] # Null THEN (f :> JsonParse(row[f])) ELSE << >>

TypeOfRow(row) ==
  [name |-> row.name, kind |-> row.kind, properties |-> JsonParse(row.properties),
   location |-> JsonParse(row.location), documentation |-> row.documentation]
  @@ OptionalParsed(row, "methods") @@ OptionalParsed(row, "extends")
  @@ OptionalParsed(row, "implements") @@ OptionalParsed(row, "typeParameters")

LastRow(rows, f, k) == rows[CHOOSE i \in 1..Len(rows) :
                              /\ rows[i][f] = k
                              /\ \A j \in 1..Len(rows) : rows[j][f] = k => j <= i]

ParquetLoadProjectIndex(d, root) ==
  IF \/ ~Parses(d.symbols) \/ ~Parses(d.types) \/ ~Parses(d.modules)
     \/ ~Parses(d.dependencies) \/ ~Parses(d.projectInfo)
  THEN Absent
  ELSE LET symbolsData == d.symbols.val
           typesData == d.types.val
           modulesData == d.modules.val
           dependenciesData == d.dependencies.val
           projectInfo == JsonParse(d.projectInfo.val)
       IN Some(
         [projectPath |-> root,
          symbols |-> [n \in { symbolsData[i].symbolName : i \in 1..Len(symbolsData) } |->
                         SymbolsOfRows(symbolsData, RowsNamed(symbolsData, n))],
          types |-> [n \in { typesData[i].typeName : i \in 1..Len(typesData) } |->
                       TypeOfRow(LastRow(typesData, "typeName", n))],
          modules |-> [p \in { modulesData[i].modulePath : i \in 1..Len(modulesData) } |->
                         LET row == LastRow(modulesData, "modulePath", p) IN
                         [path |-> row.path, exports |-> JsonParse(row.exports),
                          imports |-> JsonParse(row.imports),
                          dependencies |-> JsonParse(row.dependencies)]],
          dependencies |-> [p \in { dependenciesData[i].fromModule :
                                      i \in 1..Len(dependenciesData) } |->
                              JsonParse(LastRow(dependenciesData, "fromModule", p).toModules)],
          lastIndexed |-> projectInfo.lastIndexed])

MutLoadDecodesWhatItCan(im, d, root) ==
  LET ret == IF im = "disk" THEN DiskLoadProjectIndex(d, root)
             ELSE ParquetLoadProjectIndex(d, root)
  IN IF ret = Absent /\ d.dir
     THEN Some([projectPath |-> root, symbols |-> << >>, types |-> << >>,
                modules |-> << >>, dependencies |-> << >>, lastIndexed |-> 0])
     ELSE ret

loadProjectIndex(im, d, root) ==
  IF im = "disk" THEN DiskLoadProjectIndex(d, root) ELSE ParquetLoadProjectIndex(d, root)

(* the metadata written beside the data *)
Metadata(root, index, fileHashes) ==
  [projectPath |-> root, lastIndexed |-> index.lastIndexed,
   fileCount |-> Cardinality(DOMAIN fileHashes), fileHashes |-> fileHashes,
   version |-> CACHE_VERSION]

ParquetMetadata(root, index, fileHashes) ==
  Metadata(root, index, fileHashes) @@ [cacheFormat |-> "parquet"]

ProjectInfo(root, index, fileHashes) ==
  [projectName |-> root, language |-> "typescript", version |-> CACHE_VERSION,
   lastIndexed |-> index.lastIndexed, fileCount |-> Cardinality(DOMAIN fileHashes),
   symbolCount |-> Len(symbolsToParquetData(index.symbols)),
   typeCount |-> Len(typesToParquetData(index.types))]

(* initializeProjectStructure: directories, .gitignore and project.yml,
   each file written only when it is not there *)
MutInitRewritesProjectYml(d, t) ==
  [d EXCEPT !.dir = TRUE, !.layout = TRUE, !.gitignore = TRUE,
            !.projectYml = Some([version |-> CACHE_VERSION, created |-> t])]

initializeProjectStructure(d, t) ==
  [d EXCEPT !.dir = TRUE, !.layout = TRUE, !.gitignore = TRUE,
            !.projectYml = IF @ = Absent
                           THEN Some([version |-> CACHE_VERSION, created |-> t])
                           ELSE @]

(* saveProjectIndex up to the data written: DiskCache's mkdir and
   <hash>.json; ParquetCache's project structure and four parquet files *)
WriteData(im, d, index, t) ==
  IF im = "disk"
  THEN [d EXCEPT !.dir = TRUE,
                 !.cacheFile = Some(JsonStringify(DiskSerializable(index)))]
  ELSE LET s == initializeProjectStructure(d, t) IN
       [s EXCEPT !.symbols = writeParquetFile(@, symbolsToParquetData(index.symbols)),
                 !.types = writeParquetFile(@, typesToParquetData(index.types)),
                 !.modules = writeParquetFile(@, modulesToParquetData(index.modules)),
                 !.dependencies =
                    writeParquetFile(@, dependenciesToParquetData(index.dependencies))]

----------------------------------------------------------------------------
(* The language adapter: BaseLanguageAdapter and TypeScriptAdapter *)

(* config.name and the operation name "index", one character each *)
ConfigName == << "t" >>
IndexOperation == << "i" >>
(* the ttl indexProject passes to cache.set: 10 minutes *)
IndexTTL == 2
Callers == { 1, 2 }

RECURSIVE Join(_)
(* args.join(':') *)
Join(args) ==
  IF args = << >> THEN << >>
  ELSE IF Len(args) = 1 THEN Head(args)
       ELSE Head(args) \o << ":" >> \o Join(Tail(args))

getCacheKey(projectPath, operation, args) ==
  ConfigName \o << ":" >> \o projectPath \o << ":" >> \o operation \o << ":" >> \o Join(args)

(* createPatternRegex: '*' becomes .*, '?' becomes ., every other character
   stands for itself; the expression is anchored at both ends *)
createPatternRegex(pattern) ==
  [i \in 1..Len(pattern) |->
     IF pattern[i] = "*" THEN [kind |-> "many", ch |-> ""]
     ELSE IF pattern[i] = "?" THEN [kind |-> "one", ch |-> ""]
     ELSE [kind |-> "literal", ch |-> pattern[i]]]

(* the characters a regular expression's . does not match *)
LineTerminators == { "\n", "\r" }

RECURSIVE RegexTest(_, _)
(* regex.test(key): .* and . match any characters but line terminators *)
RegexTest(regex, key) ==
  IF regex = << >> THEN key = << >>
  ELSE IF Head(regex).kind = "many"
       THEN \/ RegexTest(Tail(regex), key)
            \/ /\ key # << >>
               /\ Head(key) \notin LineTerminators
               /\ RegexTest(regex, Tail(key))
       ELSE /\ key # << >>
            /\ \/ Head(regex).kind = "one" /\ Head(key) \notin LineTerminators
               \/ Head(regex).kind = "literal" /\ Head(regex).ch = Head(key)
            /\ RegexTest(Tail(regex), Tail(key))

(* invalidate(pattern): every key the expression matches is deleted *)
invalidate(c, pattern) ==
  LET regex == createPatternRegex(pattern) IN
  Filter(c, { k \in CacheKeys(c) : RegexTest(regex, k) })

(* handleFileChange: this.cache.invalidate(`${config.name}:${projectPath}:*`);
   handleFileUpdate and handleFileDelete only log *)
handleFileChange(c, projectPath) ==
  invalidate(c, ConfigName \o << ":" >> \o projectPath \o << ":", "*" >>)

(* validateProjectPath: TRUE when it does not throw *)
validateProjectPath(projectPath, initialized) == projectPath # << >> /\ initialized

(* findSymbol with the default options: the exported symbols of that name *)
findSymbol(index, symbolName) ==
  LET symbols == IF symbolName \in DOMAIN index.symbols
                 THEN index.symbols[symbolName] ELSE << >>
  IN SelectSeq(symbols, LAMBDA s : s.isExported)

(* searchTypes with a query and no kind: the types whose lower-cased name
   includes the query; names and queries of the fixture are one character *)
ToLowerCase(n) == IF n = "A" THEN "a" ELSE n
Includes(s, q) == q = "" \/ s = q
searchTypes(index, query) ==
  { index.types[n] : n \in { m \in DOMAIN index.types : Includes(ToLowerCase(m), query) } }

(* saveProjectIndex run from its first write to its last without a pause *)
saveProjectIndex(im, d, index, fs, t) ==
  LET w == WriteData(im, d, index, t)
      fileHashes == getFileHashes(fs)
      meta == Some(JsonStringify(Metadata(index.projectPath, index, fileHashes)))
  IN IF im = "disk"
     THEN [w EXCEPT !.metaFile = meta]
     ELSE [w EXCEPT !.fileHashes = Some(JsonStringify(
                       ParquetMetadata(index.projectPath, index, fileHashes))),
                    !.projectInfo =
                       Some(JsonStringify(ProjectInfo(index.projectPath, index, fileHashes)))]

IdleCall == [pc |-> "idle"]

(* a new adapter: nothing indexed, not initialized, nothing watched *)
InitAdapterIdle ==
  /\ projectIndexes = [r \in Roots |-> Absent]
  /\ projects = [r \in Roots |-> Absent]
  /\ isInitialized = FALSE
  /\ watching = {}
  /\ pending = [r \in Roots |-> Absent]
  /\ calls = [c \in Callers |-> IdleCall]
  /\ signalled = [r \in Roots |-> FALSE]

----------------------------------------------------------------------------
(* The cold store's operations, with the project's files changing under it *)

IdleSave == [pc |-> "idle"]
(* history of the last save of a root: the index handed to it, the files
   that index was produced from, the files its fingerprint was taken from,
   and whether it ran to its end *)
NoHist ==
  [saved |-> Absent, snapshot |-> Absent, fp |-> Absent, done |-> FALSE,
   completed |-> Absent]

(* nothing saved, nothing produced, a project with no source file *)
InitColdIdle ==
  /\ impl = "disk"
  /\ accessible = Roots
  /\ files = [r \in Roots |-> NoFiles]
  /\ store = [r \in Roots |-> EmptyDir]
  /\ save = IdleSave
  /\ produced = [r \in Roots |-> Absent]
  /\ hist = [r \in Roots |-> NoHist]
  /\ InitAdapterIdle

InitCold ==
  /\ cache = << >>
  /\ stats = [hits |-> 0, misses |-> 0, evictions |-> 0]
  /\ cleanupInterval = "active"
  /\ now = 0
  /\ obs = NoObs
  /\ impl \in { "disk", "parquet" }
  /\ accessible = Roots
  /\ files \in [Roots -> [Paths -> 0..1]]
  /\ store = [r \in Roots |-> EmptyDir]
  /\ save = IdleSave
  /\ produced = [r \in Roots |-> Absent]
  /\ hist = [r \in Roots |-> NoHist]
  /\ InitAdapterIdle

FileChanged(r, p, m) ==
  /\ files' = [files EXCEPT ![r][p] = m]
  /\ obs' = NoObs
  /\ UNCHANGED <<accessible, impl, store, save, produced, hist>>
  /\ UNCHANGED hotVars
  /\ UNCHANGED adapterVars

CreateFile(r, p, m) == files[r][p] = 0 /\ FileChanged(r, p, m)
ModifyFile(r, p) ==
  /\ files[r][p] # 0
  /\ files[r][p] + 1 \in MtimesOf(p)
  /\ FileChanged(r, p, files[r][p] + 1)
DeleteFile(r, p) == files[r][p] # 0 /\ FileChanged(r, p, 0)

(* the caller has the analyzer produce an index from the files as they are;
   it is the caller that saves, so it produces while no save of its own runs *)
Produce(r) ==
  /\ save.pc = "idle"
  /\ produced' = [produced EXCEPT ![r] =
       Some([index |-> buildProjectIndex(files[r], r, now), snapshot |-> files[r]])]
  /\ obs' = NoObs
  /\ UNCHANGED <<accessible, impl, files, store, save, hist>>
  /\ UNCHANGED hotVars
  /\ UNCHANGED adapterVars

SaveBegin(r) ==
  /\ save.pc = "idle"
  /\ produced[r] # Absent
  /\ store' = [store EXCEPT ![r] = WriteData(impl, @, produced[r].val.index, now)]
  /\ save' = [pc |-> "hashes", root |-> r, index |-> produced[r].val.index,
              fileHashes |-> << >>, fpFiles |-> NoFiles]
  /\ hist' = [hist EXCEPT ![r].saved = Some(produced[r].val.index),
                          ![r].snapshot = Some(produced[r].val.snapshot),
                          ![r].done = FALSE]
  /\ produced' = [produced EXCEPT ![r] = Absent]
  /\ obs' = NoObs
  /\ UNCHANGED <<accessible, impl, files>>
  /\ UNCHANGED hotVars
  /\ UNCHANGED adapterVars

(* const fileHashes = await this.getFileHashes(projectPath) *)
SaveHashes ==
  /\ save.pc = "hashes"
  /\ save' = [save EXCEPT !.pc = "meta", !.fileHashes = getFileHashes(files[save.root]),
                          !.fpFiles = files[save.root]]
  /\ obs' = NoObs
  /\ UNCHANGED <<accessible, impl, files, store, produced, hist>>
  /\ UNCHANGED hotVars
  /\ UNCHANGED adapterVars

(* the metadata file is written: DiskCache's <hash>.meta.json, which ends
   its save, or ParquetCache's file_hashes json. The write fails when the
   directory was removed meanwhile: DiskCache logs it, ParquetCache rethrows. *)
SaveMeta ==
  /\ save.pc = "meta"
  /\ LET r == save.root
         meta == Some(JsonStringify(Metadata(r, save.index, save.fileHashes)))
         h == [hist[r] EXCEPT !.fp = Some(save.fpFiles)]
     IN IF impl = "disk"
        THEN IF store[r].dir
             THEN /\ store' = [store EXCEPT ![r].metaFile = meta]
                  /\ hist' = [hist EXCEPT ![r] =
                               [h EXCEPT !.done = TRUE,
                                         !.completed = Some([store[r] EXCEPT !.metaFile = meta])]]
                  /\ save' = IdleSave
                  /\ obs' = [op |-> "save", root |-> r, threw |-> FALSE]
             ELSE /\ save' = IdleSave
                  /\ obs' = [op |-> "save", root |-> r, threw |-> FALSE]
                  /\ UNCHANGED <<store, hist>>
        ELSE IF store[r].layout
             THEN /\ store' = [store EXCEPT ![r].fileHashes = Some(JsonStringify(
                                ParquetMetadata(r, save.index, save.fileHashes)))]
                  /\ hist' = [hist EXCEPT ![r] = h]
                  /\ save' = [save EXCEPT !.pc = "info"]
                  /\ obs' = NoObs
             ELSE /\ save' = IdleSave
                  /\ obs' = [op |-> "save", root |-> r, threw |-> TRUE]
                  /\ UNCHANGED <<store, hist>>
  /\ UNCHANGED <<accessible, impl, files, produced>>
  /\ UNCHANGED hotVars
  /\ UNCHANGED adapterVars

(* ParquetCache's project_info json, which ends its save *)
SaveInfo ==
  /\ save.pc = "info"
  /\ LET r == save.root IN
     IF store[r].layout
     THEN /\ store' = [store EXCEPT ![r].projectInfo =
                Some(JsonStringify(ProjectInfo(r, save.index, save.fileHashes)))]
          /\ hist' = [hist EXCEPT ![r].done = TRUE,
                                  ![r].completed = Some([store[r] EXCEPT !.projectInfo =
                                     Some(JsonStringify(ProjectInfo(r, save.index, save.fileHashes)))])]
          /\ obs' = [op |-> "save", root |-> r, threw |-> FALSE]
     ELSE /\ obs' = [op |-> "save", root |-> r, threw |-> TRUE]
          /\ UNCHANGED <<store, hist>>
  /\ save' = IdleSave
  /\ UNCHANGED <<accessible, impl, files, produced>>
  /\ UNCHANGED hotVars
  /\ UNCHANGED adapterVars

MutIsValidRemovesInvalid(r) ==
  /\ obs' = [op |-> "isValid", root |-> r, val |-> isCacheValid(impl, store[r], files[r])]
  /\ store' = IF isCacheValid(impl, store[r], files[r]) THEN store
              ELSE [store EXCEPT ![r] = EmptyDir]
  /\ UNCHANGED <<accessible, impl, files, save, produced, hist>>
  /\ UNCHANGED hotVars
  /\ UNCHANGED adapterVars

IsValid(r) ==
  /\ obs' = [op |-> "isValid", root |-> r, val |-> isCacheValid(impl, store[r], files[r])]
  /\ UNCHANGED coldVars
  /\ UNCHANGED hotVars
  /\ UNCHANGED adapterVars

Load(r) ==
  /\ obs' = [op |-> "load", root |-> r, ret |-> loadProjectIndex(impl, store[r], r)]
  /\ UNCHANGED coldVars
  /\ UNCHANGED hotVars
  /\ UNCHANGED adapterVars

MutClearRemovesMetadataOnly(r) ==
  /\ store' = [store EXCEPT ![r].metaFile = Absent, ![r].fileHashes = Absent]
  /\ hist' = [hist EXCEPT ![r] = NoHist]
  /\ obs' = [op |-> "clearProjectCache", root |-> r, existed |-> store[r].dir]
  /\ UNCHANGED <<accessible, impl, files, save, produced>>
  /\ UNCHANGED hotVars
  /\ UNCHANGED adapterVars

MutClearRemovesEveryRoot(r) ==
  /\ store' = [x \in DOMAIN store |-> EmptyDir]
  /\ hist' = [x \in DOMAIN hist |-> NoHist]
  /\ obs' = [op |-> "clearProjectCache", root |-> r, existed |-> store[r].dir]
  /\ UNCHANGED <<accessible, impl, files, save, produced>>
  /\ UNCHANGED hotVars
  /\ UNCHANGED adapterVars

(* clearProjectCache: rm -rf <root>/.typeref *)
ClearProjectCache(r) ==
  /\ store' = [store EXCEPT ![r] = EmptyDir]
  /\ hist' = [hist EXCEPT ![r] = NoHist]
  /\ obs' = [op |-> "clearProjectCache", root |-> r, existed |-> store[r].dir]
  /\ UNCHANGED <<accessible, impl, files, save, produced>>
  /\ UNCHANGED hotVars
  /\ UNCHANGED adapterVars

(* the process stops in the middle of a save: what it wrote stays, what it
   had not written yet is never written *)
SaveInterrupted ==
  /\ save.pc # "idle"
  /\ save' = IdleSave
  /\ obs' = [op |-> "interrupted", root |-> save.root]
  /\ UNCHANGED <<accessible, impl, files, store, produced, hist>>
  /\ UNCHANGED hotVars
  /\ UNCHANGED adapterVars

NextCold ==
  \/ \E r \in Roots, p \in Paths : \E m \in MtimesOf(p) : CreateFile(r, p, m)
  \/ \E r \in Roots, p \in Paths : ModifyFile(r, p)
  \/ \E r \in Roots, p \in Paths : DeleteFile(r, p)
  \/ \E r \in Roots : Produce(r)
  \/ \E r \in Roots : SaveBegin(r)
  \/ SaveHashes
  \/ SaveMeta
  \/ SaveInfo
  \/ \E r \in Roots : IsValid(r)
  \/ \E r \in Roots : Load(r)
  \/ \E r \in Roots : ClearProjectCache(r)

SpecCold == InitCold /\ [][NextCold]_vars

(* saves that can stop between their writes, and the validity check *)
NextCrash ==
  \/ \E r \in Roots, p \in Paths : \E m \in MtimesOf(p) : CreateFile(r, p, m)
  \/ \E r \in Roots, p \in Paths : ModifyFile(r, p)
  \/ \E r \in Roots, p \in Paths : DeleteFile(r, p)
  \/ \E r \in Roots : Produce(r)
  \/ \E r \in Roots : SaveBegin(r)
  \/ SaveHashes
  \/ SaveMeta
  \/ SaveInfo
  \/ SaveInterrupted
  \/ \E r \in Roots : IsValid(r)

SpecCrash == InitCold /\ [][NextCrash]_vars

----------------------------------------------------------------------------
(* The hot cache on its own: any sequence of its operations *)

InitHot ==
  /\ cache = <<>>
  /\ stats = [hits |-> 0, misses |-> 0, evictions |-> 0]
  /\ cleanupInterval = "active"
  /\ now = 0
  /\ obs = NoObs
  /\ InitColdIdle

Tick ==
  /\ now < MaxTime
  /\ now' = now + 1
  /\ obs' = NoObs
  /\ UNCHANGED <<cache, stats, cleanupInterval>>
  /\ UNCHANGED coldVars
  /\ UNCHANGED adapterVars

Get(k) ==
  /\ LET r == get(cache, stats, now, k) IN
     /\ r.stats.hits + r.stats.misses <= MaxCount
     /\ cache' = r.cache
     /\ stats' = r.stats
     /\ obs' = [op |-> "get", key |-> k, ret |-> r.ret,
                before |-> cache, misses |-> stats.misses]
  /\ UNCHANGED <<now, cleanupInterval>>
  /\ UNCHANGED coldVars
  /\ UNCHANGED adapterVars

Set(k, v, ttl) ==
  /\ LET r == set(cache, stats, now, k, v, ttl) IN
     /\ r.stats.evictions <= MaxCount
     /\ cache' = r.cache
     /\ stats' = r.stats
  /\ obs' = [op |-> "set", key |-> k]
  /\ UNCHANGED <<now, cleanupInterval>>
  /\ UNCHANGED coldVars
  /\ UNCHANGED adapterVars

Clear ==
  /\ LET r == clear(cache, stats) IN
     /\ cache' = r.cache
     /\ stats' = r.stats
  /\ obs' = [op |-> "clear"]
  /\ UNCHANGED <<now, cleanupInterval>>
  /\ UNCHANGED coldVars
  /\ UNCHANGED adapterVars

Invalidate(pattern) ==
  /\ cache' = invalidate(cache, pattern)
  /\ obs' = [op |-> "invalidate", pattern |-> pattern]
  /\ UNCHANGED <<stats, now, cleanupInterval>>
  /\ UNCHANGED coldVars
  /\ UNCHANGED adapterVars

(* the interval timer fires: performCleanup() *)
Sweep ==
  /\ cleanupInterval = "active"
  /\ LET r == performCleanup(cache, stats, now) IN
     /\ r.stats.evictions <= MaxCount
     /\ cache' = r.cache
     /\ stats' = r.stats
     /\ obs' = [op |-> "sweep",
                expired |-> Cardinality({ i \in 1..Len(cache) : Expired(cache[i], now) }),
                evicted |-> r.stats.evictions - stats.evictions]
  /\ UNCHANGED <<now, cleanupInterval>>
  /\ UNCHANGED coldVars
  /\ UNCHANGED adapterVars

Destroy ==
  /\ LET r == destroy(cache, stats, cleanupInterval) IN
     /\ cache' = r.cache
     /\ stats' = r.stats
     /\ cleanupInterval' = r.cleanupInterval
  /\ obs' = [op |-> "destroy", again |-> (cleanupInterval = "cleared")]
  /\ UNCHANGED now
  /\ UNCHANGED coldVars
  /\ UNCHANGED adapterVars

NextHot ==
  \/ Tick
  \/ \E k \in HotKeys : Get(k)
  \/ \E args \in SetInputs : Set(args[1], args[2], args[3])
  \/ Clear
  \/ \E pattern \in Patterns : Invalidate(pattern)
  \/ Sweep
  \/ Destroy

SpecHot == InitHot /\ [][NextHot]_vars

----------------------------------------------------------------------------
(* Claims about the hot cache *)

(* the ttl a set call asked for: the argument, or the default when omitted *)
RequestedTTL(ttl) == IF ttl.given THEN ttl.val ELSE defaultTTL

GetSawEntry == obs.op = "get" /\ obs.key \in CacheKeys(obs.before)
GetEntry == obs.before[IndexOf(obs.before, obs.key)]

(* C9: set(k, v, t) followed by get(k) after t has elapsed (now is past the
   time of the set plus t), with no set(k) in between, returns absent, for
   every t passed to set, t = 0 included. *)
C9_GetAfterTTLAbsent ==
  (GetSawEntry /\ now > GetEntry.timestamp + RequestedTTL(GetEntry.requested))
    => obs.ret = Absent

(* C10: get(k) returns the stored value exactly when an entry for k exists
   and is unexpired (not storedAt + ttl < now); otherwise it returns absent
   and adds one to the miss counter, and an expired entry that existed is
   removed from the map by this get. *)
C10_GetContract ==
  obs.op = "get" =>
    IF GetSawEntry /\ ~(GetEntry.timestamp + GetEntry.ttl < now)
    THEN obs.ret = Some(GetEntry.data)
    ELSE /\ obs.ret = Absent
         /\ stats.misses = obs.misses + 1
         /\ obs.key \notin CacheKeys(cache)

(* a get that found an expired entry *)
C10_Witness ==
  /\ GetSawEntry
  /\ GetEntry.timestamp + GetEntry.ttl < now
  /\ obs.ret = Absent


(* C11: a set on a cache at capacity removes exactly one of the entries
   already there, one with the smallest timestamp, before it inserts; and a
   get changes no entry's timestamp *)
Oldest(c) == { i \in 1..Len(c) : \A j \in 1..Len(c) : c[i].timestamp <= c[j].timestamp }
NewEntry == cache'[IndexOf(cache', obs'.key)]
C11_SetEvictsOneOldest ==
  [][/\ (obs'.op = "set" /\ Len(cache) >= maxSize) =>
          \E i \in Oldest(cache) : cache' = MapSet(Filter(cache, { cache[i].key }), NewEntry)
     /\ obs'.op = "get" => \A i \in 1..Len(cache') : cache'[i] \in SeqToSet(cache)]_vars

(* C12: the hot cache never holds more than maxSize entries *)
C12_BoundedMemory == Len(cache) <= maxSize

RECURSIVE GlobMatch(_, _)
(* the glob pattern matches the whole key: '*' any run of characters, '?'
   exactly one character, every other character itself *)
GlobMatch(pattern, key) ==
  IF pattern = << >> THEN key = << >>
  ELSE IF Head(pattern) = "*"
       THEN \/ GlobMatch(Tail(pattern), key)
            \/ key # << >> /\ GlobMatch(pattern, Tail(key))
       ELSE /\ key # << >>
            /\ Head(pattern) = "?" \/ Head(pattern) = Head(key)
            /\ GlobMatch(Tail(pattern), Tail(key))

(* C13: invalidate(pattern) removes exactly the entries whose key the glob
   pattern matches and leaves every other entry as it was *)
C13_InvalidateGlob ==
  [][obs'.op = "invalidate" =>
       cache' = Filter(cache, { k \in CacheKeys(cache) : GlobMatch(obs'.pattern, k) })]_vars

(* C14: after a sweep no expired entry remains, at most floor(0.8 * maxSize)
   entries remain, every remaining entry is as it was, and no unexpired
   entry that was removed is younger than one that remains *)
Live(c, t) == { i \in 1..Len(c) : ~Expired(c[i], t) }
C14_Sweep ==
  [][obs'.op = "sweep" =>
       /\ \A i \in 1..Len(cache') : ~Expired(cache'[i], now) /\ cache'[i] \in SeqToSet(cache)
       /\ 10 * Len(cache') <= 8 * maxSize
       /\ \A i, j \in Live(cache, now) :
            (cache[i].key \notin CacheKeys(cache') /\ cache[j].key \in CacheKeys(cache'))
              => cache[i].timestamp <= cache[j].timestamp]_vars

C14_Witness == obs.op = "sweep" /\ obs.expired > 0 /\ obs.evicted > 0 /\ Len(cache) > 0

(* C15: after destroy the timer is cleared and no entry is left; a destroy
   after a destroy leaves what one destroy leaves; and a sweep runs only
   while the timer has not been cleared *)
AfterDestroy ==
  [cache |-> << >>, stats |-> [hits |-> 0, misses |-> 0, evictions |-> 0],
   cleanupInterval |-> "cleared"]
C15_Destroy ==
  /\ obs.op = "destroy" =>
       /\ cache = << >> /\ cleanupInterval = "cleared"
       /\ obs.again => [cache |-> cache, stats |-> stats,
                        cleanupInterval |-> cleanupInterval] = AfterDestroy
       /\ destroy(cache, stats, cleanupInterval) = AfterDestroy
  /\ obs.op = "sweep" => cleanupInterval = "active"

C15_Witness == obs.op = "destroy" /\ obs.again

(* C16: each get adds one to hits + misses; set, invalidate, the sweep and
   the clock leave hits and misses as they are; clear leaves no entry and
   sets hits, misses and evictions to zero *)
C16_Counters ==
  [][/\ obs'.op = "get" => stats'.hits + stats'.misses = stats.hits + stats.misses + 1
     /\ obs'.op \in { "set", "invalidate", "sweep", "none" } =>
          stats'.hits = stats.hits /\ stats'.misses = stats.misses
     /\ obs'.op = "clear" =>
          /\ Len(cache') = 0
          /\ stats' = [hits |-> 0, misses |-> 0, evictions |-> 0]]_vars

C16_Witness == obs.op = "sweep" /\ stats.hits + stats.misses > 0 /\ Len(cache) > 0


----------------------------------------------------------------------------
(* Claims about the cold store *)

LastSave(r) == hist[r]
(* the four maps of an index *)
Maps(x) == [symbols |-> x.symbols, types |-> x.types, modules |-> x.modules,
            dependencies |-> x.dependencies]
(* the last save of the observed root ran to its end *)
SavedThen(op) == obs.op = op /\ LastSave(obs.root).done

(* C3: in both stores, isValid right after a save that ran to its end, the
   source files being what they were when the save took its fingerprint,
   returns true, whatever maps of the saved index are empty *)
C3_SaveThenValid ==
  (SavedThen("isValid") /\ files[obs.root] = LastSave(obs.root).fp.val) => obs.val

(* C3 for DiskCache alone *)
C3_DiskSaveThenValid == impl = "disk" => C3_SaveThenValid

(* C4: once a save has written its fingerprint, isValid returns false
   whenever the source files differ from those the fingerprint was taken
   from: an mtime differs, a file was added, or a file was deleted *)
C4_ChangedThenInvalid ==
  (/\ obs.op = "isValid"
   /\ LastSave(obs.root).fp # Absent
   /\ files[obs.root] # LastSave(obs.root).fp.val) => ~obs.val

C4_Witness ==
  /\ SavedThen("isValid")
  /\ files[obs.root] # LastSave(obs.root).fp.val
  /\ Present(files[obs.root]) # {}
  /\ ~obs.val

(* C5: when the source files changed between the analyzer producing the
   index and the save taking its fingerprint, isValid does not return true
   for that saved index *)
C5_ChangeBeforeSaveNotAbsorbed ==
  (/\ SavedThen("isValid")
   /\ LastSave(obs.root).snapshot.val # LastSave(obs.root).fp.val) => ~obs.val

(* C8: in both stores, load after a save that ran to its end returns an
   index whose symbols, types, modules and dependencies equal those of the
   saved index *)
C8_RoundTrip ==
  SavedThen("load") =>
    /\ obs.ret # Absent
    /\ Maps(obs.ret.val) = Maps(LastSave(obs.root).saved.val)

(* C8 for DiskCache alone *)
C8_DiskRoundTrip == impl = "disk" => C8_RoundTrip

----------------------------------------------------------------------------
(* The coordinator: the adapter over the hot cache and the watcher, with
   the project's files changing and the cold store beside it *)

IndexKey(r) == getCacheKey(r, IndexOperation, << >>)
IndexTTLArg == [given |-> TRUE, val |-> IndexTTL]
everything == <<cache, stats, now, cleanupInterval, accessible, impl, files, store, save,
                produced, hist, projectIndexes, projects, isInitialized, watching, pending,
                calls, signalled>>

Init == InitCold

(* initialize(projectPath): the watcher watches the root *)
Initialize(r) ==
  /\ watching' = watching \cup { r }
  /\ isInitialized' = TRUE
  /\ obs' = NoObs
  /\ UNCHANGED <<projectIndexes, projects, pending, calls, signalled>>
  /\ UNCHANGED hotVars
  /\ UNCHANGED coldVars

MutIndexStartIgnoresForce(c, r, force) ==
  /\ calls[c] = IdleCall
  /\ validateProjectPath(r, isInitialized)
  /\ LET g == get(cache, stats, now, IndexKey(r)) IN
     /\ g.stats.hits + g.stats.misses <= MaxCalls
     /\ cache' = g.cache
     /\ stats' = g.stats
     /\ IF g.ret # Absent
        THEN /\ projectIndexes' = [projectIndexes EXCEPT ![r] = g.ret]
             /\ obs' = [op |-> "indexProject", root |-> r, caller |-> c,
                        threw |-> FALSE, analyzed |-> FALSE, force |-> force,
                        ret |-> g.ret]
             /\ UNCHANGED calls
        ELSE /\ calls' = [calls EXCEPT ![c] =
                            [pc |-> "building", root |-> r, force |-> force,
                             startedAt |-> now, existed |-> r \in accessible]]
             /\ obs' = [op |-> "indexProject.miss", root |-> r, caller |-> c,
                        force |-> force]
             /\ UNCHANGED projectIndexes
  /\ UNCHANGED <<now, cleanupInterval, projects, isInitialized, watching, pending, signalled>>
  /\ UNCHANGED coldVars

(* indexProject up to its first await: validateProjectPath, cache.get, and
   the return of the cached index unless force *)
IndexStart(c, r, force) ==
  /\ calls[c] = IdleCall
  /\ IF ~validateProjectPath(r, isInitialized)
     THEN /\ obs' = [op |-> "indexProject", root |-> r, caller |-> c, threw |-> TRUE,
                     analyzed |-> FALSE]
          /\ UNCHANGED <<cache, stats, projectIndexes, calls>>
     ELSE LET g == get(cache, stats, now, IndexKey(r)) IN
          /\ g.stats.hits + g.stats.misses <= MaxCalls
          /\ cache' = g.cache
          /\ stats' = g.stats
          /\ IF g.ret # Absent /\ ~force
             THEN /\ projectIndexes' = [projectIndexes EXCEPT ![r] = g.ret]
                  /\ obs' = [op |-> "indexProject", root |-> r, caller |-> c,
                             threw |-> FALSE, analyzed |-> FALSE, force |-> force,
                             ret |-> g.ret]
                  /\ UNCHANGED calls
             ELSE /\ calls' = [calls EXCEPT ![c] =
                                 [pc |-> "building", root |-> r, force |-> force,
                                  startedAt |-> now, existed |-> r \in accessible]]
                  /\ obs' = [op |-> "indexProject.miss", root |-> r, caller |-> c,
                             force |-> force]
                  /\ UNCHANGED projectIndexes
  /\ UNCHANGED <<now, cleanupInterval, projects, isInitialized, watching, pending, signalled>>
  /\ UNCHANGED coldVars

(* indexProject from createProject to its return: the project is read from
   the files, the index built, cached for IndexTTL and registered *)
IndexFinish(c) ==
  /\ calls[c].pc = "building"
  /\ LET r == calls[c].root
         index == buildProjectIndex(files[r], r, now)
         s == set(cache, stats, now, IndexKey(r), index, IndexTTLArg)
     IN /\ cache' = s.cache
        /\ stats' = s.stats
        /\ projects' = [projects EXCEPT ![r] = Some(files[r])]
        /\ projectIndexes' = [projectIndexes EXCEPT ![r] = Some(index)]
        /\ signalled' = [signalled EXCEPT ![r] = FALSE]
        /\ obs' = [op |-> "indexProject", root |-> r, caller |-> c, threw |-> FALSE,
                   analyzed |-> TRUE, force |-> calls[c].force,
                   existed |-> calls[c].existed, ret |-> Some(index)]
  /\ calls' = [calls EXCEPT ![c] = IdleCall]
  /\ UNCHANGED <<now, cleanupInterval, isInitialized, watching, pending>>
  /\ UNCHANGED coldVars

(* indexProject when createProject has returned and buildProjectIndex throws:
   the Project is registered, nothing is cached, the error is rethrown *)
IndexFails(c) ==
  /\ calls[c].pc = "building"
  /\ projects' = [projects EXCEPT ![calls[c].root] = Some(files[calls[c].root])]
  /\ obs' = [op |-> "indexProject", root |-> calls[c].root, caller |-> c, threw |-> TRUE,
             analyzed |-> TRUE, force |-> calls[c].force, existed |-> calls[c].existed]
  /\ calls' = [calls EXCEPT ![c] = IdleCall]
  /\ UNCHANGED <<projectIndexes, isInitialized, watching, pending, signalled>>
  /\ UNCHANGED hotVars
  /\ UNCHANGED coldVars

(* findSymbol and searchTypes answer from the registered index, and throw
   when the adapter is not initialized or the project not indexed *)
Answer(r, op, ret) == [op |-> op, root |-> r, threw |-> FALSE, ret |-> ret]
Thrown(r, op) == [op |-> op, root |-> r, threw |-> TRUE]
Indexed(r) == validateProjectPath(r, isInitialized) /\ projectIndexes[r] # Absent

FindSymbol(r, symbolName) ==
  /\ obs' = IF Indexed(r)
            THEN Answer(r, "findSymbol", findSymbol(projectIndexes[r].val, symbolName))
            ELSE Thrown(r, "findSymbol")
  /\ UNCHANGED everything

SearchTypes(r, query) ==
  /\ obs' = IF Indexed(r)
            THEN Answer(r, "searchTypes", searchTypes(projectIndexes[r].val, query))
            ELSE Thrown(r, "searchTypes")
  /\ UNCHANGED everything

(* a source file is created (m > 0 on no file), modified (the next mtime) or
   deleted (m = 0); a watched root's watcher holds the event until it is
   delivered, and one event at a time is followed *)
EventType(old, m) == IF old = 0 THEN "Created" ELSE IF m = 0 THEN "Deleted" ELSE "Modified"
SourceChanges(r, p, m) ==
  /\ r \in accessible
  /\ files[r][p] # m
  /\ m = 0 \/ files[r][p] = 0 \/ m = files[r][p] + 1
  /\ pending[r] = Absent
  /\ files' = [files EXCEPT ![r][p] = m]
  /\ pending' = IF r \in watching
                THEN [pending EXCEPT ![r] =
                        Some([eventType |-> EventType(files[r][p], m), filePath |-> p])]
                ELSE pending
  /\ obs' = NoObs
  /\ UNCHANGED <<accessible, impl, store, save, produced, hist>>
  /\ UNCHANGED <<projectIndexes, projects, isInitialized, watching, calls, signalled>>
  /\ UNCHANGED hotVars

MutHandleFileChangeRebuilds(r) ==
  /\ pending[r] # Absent
  /\ LET s == set(handleFileChange(cache, r), stats, now, IndexKey(r),
                  buildProjectIndex(files[r], r, now), IndexTTLArg)
     IN cache' = s.cache /\ stats' = s.stats
  /\ pending' = [pending EXCEPT ![r] = Absent]
  /\ signalled' = [signalled EXCEPT ![r] = TRUE]
  /\ obs' = [op |-> "handleFileChange", root |-> r, event |-> pending[r].val]
  /\ UNCHANGED <<now, cleanupInterval, projectIndexes, projects, isInitialized,
                  watching, calls>>
  /\ UNCHANGED coldVars

(* the watcher's callback: handleFileChange(eventType, filePath, projectPath) *)
HandleFileChange(r) ==
  /\ pending[r] # Absent
  /\ cache' = handleFileChange(cache, r)
  /\ pending' = [pending EXCEPT ![r] = Absent]
  /\ signalled' = [signalled EXCEPT ![r] = TRUE]
  /\ obs' = [op |-> "handleFileChange", root |-> r, event |-> pending[r].val]
  /\ UNCHANGED <<stats, now, cleanupInterval, projectIndexes, projects, isInitialized,
                  watching, calls>>
  /\ UNCHANGED coldVars

(* the process ends and a new one starts: a new cache, adapter and watcher
   over the same files and the same cache directories *)
Restart ==
  /\ cache' = << >>
  /\ stats' = [hits |-> 0, misses |-> 0, evictions |-> 0]
  /\ projectIndexes' = [r \in Roots |-> Absent]
  /\ projects' = [r \in Roots |-> Absent]
  /\ isInitialized' = FALSE
  /\ watching' = {}
  /\ pending' = [r \in Roots |-> Absent]
  /\ calls' = [c \in Callers |-> IdleCall]
  /\ signalled' = [r \in Roots |-> FALSE]
  /\ cleanupInterval' = "active"
  /\ obs' = NoObs
  /\ UNCHANGED now
  /\ UNCHANGED coldVars

(* a user of the cold store saves an index of the files as they are *)
ColdSave(r) ==
  /\ LET index == buildProjectIndex(files[r], r, now) IN
     /\ store' = [store EXCEPT ![r] = saveProjectIndex(impl, @, index, files[r], now)]
     /\ hist' = [hist EXCEPT ![r] = [saved |-> Some(index), snapshot |-> Some(files[r]),
                                     completed |->
                                       Some(saveProjectIndex(impl, store[r], index, files[r], now)),
                                     fp |-> Some(files[r]), done |-> TRUE]]
  /\ obs' = NoObs
  /\ UNCHANGED <<accessible, impl, files, save, produced>>
  /\ UNCHANGED hotVars
  /\ UNCHANGED adapterVars

(* the root's directory is removed, with everything in it *)
RemoveRoot(r) ==
  /\ r \in accessible
  /\ accessible' = accessible \ { r }
  /\ files' = [files EXCEPT ![r] = NoFiles]
  /\ store' = [store EXCEPT ![r] = EmptyDir]
  /\ hist' = [hist EXCEPT ![r] = NoHist]
  /\ obs' = NoObs
  /\ UNCHANGED <<impl, save, produced>>
  /\ UNCHANGED hotVars
  /\ UNCHANGED adapterVars

(* the adapter alone: calls, builds that end or fail, signals *)
NextIndex ==
  \/ \E r \in Roots : Initialize(r)
  \/ \E c \in Callers, r \in Roots, force \in BOOLEAN : IndexStart(c, r, force)
  \/ \E c \in Callers : IndexFinish(c)
  \/ \E c \in Callers : IndexFails(c)
  \/ \E r \in Roots, symbolName \in { "A", "f" } : FindSymbol(r, symbolName)
  \/ \E r \in Roots, p \in Paths : \E m \in {0} \cup MtimesOf(p) : SourceChanges(r, p, m)
  \/ \E r \in Roots : HandleFileChange(r)
  \/ \E r \in Roots : RemoveRoot(r)

SpecIndex == Init /\ [][NextIndex]_vars

(* builds while the clock runs *)
NextTimed ==
  \/ \E r \in Roots : Initialize(r)
  \/ \E c \in Callers, r \in Roots, force \in BOOLEAN : IndexStart(c, r, force)
  \/ \E c \in Callers : IndexFinish(c)
  \/ \E c \in Callers : IndexFails(c)
  \/ Tick

SpecTimed == Init /\ [][NextTimed]_vars

Next ==
  \/ \E r \in Roots : Initialize(r)
  \/ \E c \in Callers, r \in Roots, force \in BOOLEAN : IndexStart(c, r, force)
  \/ \E c \in Callers : IndexFinish(c)
  \/ \E r \in Roots, symbolName \in { "A", "f" } : FindSymbol(r, symbolName)
  \/ \E r \in Roots, query \in { "", "a" } : SearchTypes(r, query)
  \/ \E r \in Roots, p \in Paths : \E m \in {0} \cup MtimesOf(p) : SourceChanges(r, p, m)
  \/ \E r \in Roots : HandleFileChange(r)
  \/ Restart
  \/ \E r \in Roots : ColdSave(r)
  \/ \E r \in Roots : ClearProjectCache(r)

Spec == Init /\ [][Next]_vars


----------------------------------------------------------------------------
(* Claims about the coordinator *)

Served == obs.op \in { "indexProject", "findSymbol", "searchTypes" } /\ ~obs.threw
ColdValid(r) == isCacheValid(impl, store[r], files[r])
HotIndex(r) == IF IndexKey(r) \in CacheKeys(cache)
               THEN Some(cache[IndexOf(cache, IndexKey(r))].data) ELSE Absent
Unindexed(r) == HotIndex(r) = Absent /\ ~ColdValid(r)
Building(r) == { c \in Callers : calls[c].pc = "building" /\ calls[c].root = r }

(* C1: once a file-change signal for a root has been handled, and until a
   new index of the root has been built, no indexProject, findSymbol or
   searchTypes on the root returns data *)
C1_NoStaleServed == Served => ~signalled[obs.root]

(* C2: of the indexProject calls without force that overlap on a root with
   no hot entry and no valid cold copy, at most one is on its way to the
   analyzer *)
C2_SingleFlight ==
  \A r \in Roots :
    Unindexed(r) => Cardinality({ c \in Building(r) : ~calls[c].force }) <= 1

(* C6: an indexProject without force that finds no hot entry while the cold
   store's copy is valid populates the hot tier from it and does not go on
   to the analyzer *)
C6_ColdHit ==
  (obs.op = "indexProject.miss" /\ ~obs.force /\ ColdValid(obs.root)) =>
    /\ HotIndex(obs.root) # Absent
    /\ calls[obs.caller].pc # "building"

(* C7: an indexProject that returns after invoking the analyzer leaves the
   index in the hot tier under the root's index key, and in the cold
   store: the cache directory exists and isCacheValid is true *)
C7_FullMissStoresBoth ==
  (obs.op = "indexProject" /\ ~obs.threw /\ obs.analyzed) =>
    /\ HotIndex(obs.root) = obs.ret
    /\ store[obs.root].dir
    /\ ColdValid(obs.root)

----------------------------------------------------------------------------
(* The cold store under faults of its files: whole saves, files replaced by
   bytes that do not parse, and a cache left by another release *)

(* the files isCacheValid requires to exist, by field of the directory *)
RequiredFiles(im) ==
  IF im = "disk" THEN { "cacheFile", "metaFile" }
  ELSE { "symbols", "types", "modules", "dependencies", "fileHashes", "projectInfo" }

(* something outside the program overwrites one cache file with garbage *)
Corrupt(r, f) ==
  /\ f \in RequiredFiles(impl)
  /\ Parses(store[r][f])
  /\ store' = [store EXCEPT ![r][f] = Garbage]
  /\ obs' = NoObs
  /\ UNCHANGED <<accessible, impl, files, save, produced, hist>>
  /\ UNCHANGED hotVars
  /\ UNCHANGED adapterVars

(* a release whose CACHE_VERSION is OtherVersion saves the project. DiskCache's
   file names do not carry the version, so it writes the files this release
   reads; ParquetCache's do, so only the project structure is shared. *)
ForeignSave(r) ==
  /\ LET index == buildProjectIndex(files[r], r, now)
         meta == [Metadata(r, index, getFileHashes(files[r])) EXCEPT !.version = OtherVersion]
     IN store' = [store EXCEPT ![r] =
          IF impl = "disk"
          THEN [saveProjectIndex(impl, @, index, files[r], now)
                  EXCEPT !.metaFile = Some(JsonStringify(meta))]
          ELSE [initializeProjectStructure(@, now) EXCEPT !.projectYml =
                  IF store[r].projectYml = Absent
                  THEN Some([version |-> OtherVersion, created |-> now])
                  ELSE @]]
  /\ obs' = NoObs
  /\ UNCHANGED <<accessible, impl, files, save, produced, hist>>
  /\ UNCHANGED hotVars
  /\ UNCHANGED adapterVars

(* something outside the program rewrites the version in the metadata file,
   which stays well-formed JSON *)
Restamp(r) ==
  /\ Parses(IF impl = "disk" THEN store[r].metaFile ELSE store[r].fileHashes)
  /\ store' = [store EXCEPT ![r] =
       IF impl = "disk"
       THEN [@ EXCEPT !.metaFile =
               Some(JsonStringify([JsonParse(@.val) EXCEPT !.version = OtherVersion]))]
       ELSE [@ EXCEPT !.fileHashes =
               Some(JsonStringify([JsonParse(@.val) EXCEPT !.version = OtherVersion]))]]
  /\ obs' = NoObs
  /\ UNCHANGED <<accessible, impl, files, save, produced, hist>>
  /\ UNCHANGED hotVars
  /\ UNCHANGED adapterVars

(* ParquetCache.initializeProjectStructure called on its own *)
InitializeLayout(r) ==
  /\ impl = "parquet"
  /\ store' = [store EXCEPT ![r] = initializeProjectStructure(@, now)]
  /\ obs' = [op |-> "initializeLayout", root |-> r]
  /\ UNCHANGED <<accessible, impl, files, save, produced, hist>>
  /\ UNCHANGED hotVars
  /\ UNCHANGED adapterVars

NextFault ==
  \/ \E r \in Roots, p \in Paths : \E m \in MtimesOf(p) : CreateFile(r, p, m)
  \/ \E r \in Roots, p \in Paths : ModifyFile(r, p)
  \/ \E r \in Roots, p \in Paths : DeleteFile(r, p)
  \/ \E r \in Roots : ColdSave(r)
  \/ \E r \in Roots : InitializeLayout(r)
  \/ \E r \in Roots, f \in RequiredFiles("disk") \cup RequiredFiles("parquet") : Corrupt(r, f)
  \/ \E r \in Roots : ForeignSave(r)
  \/ \E r \in Roots : Restamp(r)
  \/ \E r \in Roots : IsValid(r)
  \/ \E r \in Roots : Load(r)
  \/ \E r \in Roots : ClearProjectCache(r)

SpecFault == InitCold /\ [][NextFault]_vars

(* the metadata file of the store in use, and whether the version it holds
   is another release's *)
MetadataFile(d) == IF impl = "disk" THEN d.metaFile ELSE d.fileHashes
StoredVersionDiffers(r) ==
  /\ Parses(MetadataFile(store[r]))
  /\ JsonParse(MetadataFile(store[r]).val).version # CACHE_VERSION

(* C17: isValid returns false whenever a required file, data or metadata,
   is missing or does not parse *)
C17_FailsClosed ==
  (obs.op = "isValid" /\ \E f \in RequiredFiles(impl) : ~Parses(store[obs.root][f]))
    => obs.val = FALSE

(* C18: isValid returns false whenever the version in the metadata is not
   the current one, whatever the fingerprints *)
C18_VersionMismatchInvalid ==
  (obs.op = "isValid" /\ StoredVersionDiffers(obs.root)) => obs.val = FALSE

(* an isValid on a cache of another version whose files are all there and
   whose fingerprints match the source files *)
C18_Witness ==
  /\ obs.op = "isValid"
  /\ StoredVersionDiffers(obs.root)
  /\ \A f \in RequiredFiles(impl) : Parses(store[obs.root][f])
  /\ Present(files[obs.root]) # {}
  /\ impl = "parquet"
  /\ JsonParse(MetadataFile(store[obs.root]).val).fileHashes = getFileHashes(files[obs.root])

(* C19: load returns absent when the persisted cache was written with a
   format version that is not the current one *)
C19_LoadVersionMismatchAbsent ==
  (obs.op = "load" /\ StoredVersionDiffers(obs.root)) => obs.ret = Absent

(* C20: isValid changes no file of the cache directory and nothing of the
   hot tier, whatever it returns *)
C20_IsValidPure ==
  [][obs'.op = "isValid" =>
       /\ store' = store
       /\ cache' = cache /\ stats' = stats
       /\ projectIndexes' = projectIndexes]_vars

(* an isValid that failed inside: the metadata file is there and does not
   parse *)
C20_Witness ==
  /\ obs.op = "isValid" /\ obs.val = FALSE
  /\ store[obs.root].dir
  /\ MetadataFile(store[obs.root]) = Garbage

(* the files loadProjectIndex decodes the index from *)
DataFiles(im) ==
  IF im = "disk" THEN { "cacheFile" } ELSE { "symbols", "types", "modules", "dependencies" }

(* C21: load returns absent when a data file is missing or does not parse;
   it returns an index only when every data file was read and decoded *)
C21_LoadAbsentOnFault ==
  (obs.op = "load" /\ \E f \in DataFiles(impl) : ~Parses(store[obs.root][f]))
    => obs.ret = Absent

(* a load on a directory with one data file that does not parse, the other
   files as a save left them *)
C21_Witness ==
  /\ obs.op = "load" /\ obs.ret = Absent
  /\ \E f \in DataFiles(impl) :
       /\ store[obs.root][f] = Garbage
       /\ \A g \in RequiredFiles(impl) \ { f } : Parses(store[obs.root][g])

(* C22: after clear the cache directory is not there, isValid returns false
   and load returns absent, whether or not the directory was there *)
C22_ClearLeavesNothing ==
  obs.op = "clearProjectCache" =>
    /\ ~store[obs.root].dir
    /\ store[obs.root] = EmptyDir
    /\ ~isCacheValid(impl, store[obs.root], files[obs.root])
    /\ loadProjectIndex(impl, store[obs.root], obs.root) = Absent

(* a clear of a directory that was not there, issued while a save is under
   way *)
C22_Witness == obs.op = "clearProjectCache" /\ ~obs.existed /\ save.pc # "idle"

(* C23: initializeLayout leaves a directory that a second initializeLayout,
   at whatever time, does not change; it changes no data or metadata file,
   and isValid and load answer after it as before it *)
C23_InitializeLayoutIdempotent ==
  [][obs'.op = "initializeLayout" =>
       LET r == obs'.root IN
       /\ \A t \in 0..MaxTime : initializeProjectStructure(store'[r], t) = store'[r]
       /\ \A f \in RequiredFiles(impl) : store'[r][f] = store[r][f]
       /\ isCacheValid(impl, store'[r], files[r]) = isCacheValid(impl, store[r], files[r])
       /\ loadProjectIndex(impl, store'[r], r) = loadProjectIndex(impl, store[r], r)]_vars

(* an initializeLayout after a save whose cache is valid and loads *)
C23_Witness ==
  /\ obs.op = "initializeLayout"
  /\ hist[obs.root].done
  /\ isCacheValid(impl, store[obs.root], files[obs.root])
  /\ loadProjectIndex(impl, store[obs.root], obs.root) # Absent

(* C24: once a save has stopped, isValid returns true only if the data files
   and the metadata on disk are those a completed save left *)
C24_InterruptedSaveDetected ==
  (obs.op = "isValid" /\ obs.val /\ save.pc = "idle") =>
    /\ hist[obs.root].completed # Absent
    /\ \A f \in RequiredFiles(impl) :
         store[obs.root][f] = hist[obs.root].completed.val[f]

----------------------------------------------------------------------------
(* The hot tier shared by several project roots, and a root's file-change
   signal *)

(* project paths handed to the adapter; a path may hold any character *)
ProjectPaths == { << "p" >>, << "p", "q" >>, << "p", "?" >> }
ModuleInfoOperation == << "m" >>

(* indexProject's cache.set of a root's index (an empty project's) *)
CacheIndex(projectPath) ==
  /\ LET s == set(cache, stats, now, IndexKey(projectPath),
                  buildProjectIndex(NoFiles, projectPath, now), IndexTTLArg)
     IN cache' = s.cache /\ stats' = s.stats
  /\ obs' = [op |-> "cacheIndex", root |-> projectPath]
  /\ UNCHANGED <<now, cleanupInterval>>
  /\ UNCHANGED coldVars
  /\ UNCHANGED adapterVars

(* getModuleInfo's cache.set of a per-query result *)
CacheModuleInfo(projectPath, modulePath) ==
  /\ LET s == set(cache, stats, now,
                  getCacheKey(projectPath, ModuleInfoOperation, << modulePath >>),
                  "moduleInfo", OmittedTTL)
     IN cache' = s.cache /\ stats' = s.stats
  /\ obs' = [op |-> "cacheModuleInfo", root |-> projectPath]
  /\ UNCHANGED <<now, cleanupInterval>>
  /\ UNCHANGED coldVars
  /\ UNCHANGED adapterVars

(* the watcher's callback for a change under projectPath *)
FileChangeSignal(projectPath) ==
  /\ cache' = handleFileChange(cache, projectPath)
  /\ obs' = [op |-> "signal", root |-> projectPath]
  /\ UNCHANGED <<stats, now, cleanupInterval>>
  /\ UNCHANGED coldVars
  /\ UNCHANGED adapterVars

NextSignal ==
  \/ \E projectPath \in ProjectPaths : CacheIndex(projectPath)
  \/ \E projectPath \in ProjectPaths : CacheModuleInfo(projectPath, << "a" >>)
  \/ \E projectPath \in ProjectPaths : FileChangeSignal(projectPath)

SpecSignal == InitHot /\ [][NextSignal]_vars

HasPrefix(s, prefix) == Len(s) >= Len(prefix) /\ SubSeq(s, 1, Len(prefix)) = prefix
KeysOfRoot(c, r) ==
  { k \in CacheKeys(c) : HasPrefix(k, ConfigName \o << ":" >> \o r \o << ":" >>) }

(* C25: handling a signal for root R removes every hot entry whose key is
   one of R's, leaves every entry of another root as it was, and leaves the
   cold store as it was *)
C25_SignalFrame ==
  [][obs'.op = "signal" =>
       /\ cache' = Filter(cache, KeysOfRoot(cache, obs'.root))
       /\ store' = store]_vars

----------------------------------------------------------------------------
(* Claims about indexProject and the file-change signal *)

(* the index the hot tier holds for a root, expired or not; the root is
   Valid when it holds one that has not expired *)
HotIndexOf(c, r) == IF IndexKey(r) \in CacheKeys(c)
                    THEN Some(c[IndexOf(c, IndexKey(r))].data) ELSE Absent
Valid(r) == /\ IndexKey(r) \in CacheKeys(cache)
            /\ ~Expired(cache[IndexOf(cache, IndexKey(r))], now)
(* the step is an indexProject call at its start, by an idle caller *)
IndexProjectStarts ==
  /\ obs'.op \in { "indexProject", "indexProject.miss" }
  /\ calls[obs'.caller] = IdleCall

(* C26: handling a signal starts no build and stores no index; the first
   indexProject on the root after it goes to the analyzer, and each call
   that goes to the analyzer ends with that one build *)
C26_LazyReindex ==
  [][/\ obs'.op = "handleFileChange" =>
          /\ calls' = calls /\ projectIndexes' = projectIndexes /\ projects' = projects
          /\ CacheKeys(cache') \subseteq CacheKeys(cache)
          /\ HotIndexOf(cache', obs'.root) = Absent
     /\ (IndexProjectStarts /\ signalled[obs'.root]) =>
          /\ obs'.op = "indexProject.miss"
          /\ calls'[obs'.caller].pc = "building"
     /\ (obs'.op = "indexProject" /\ obs'.analyzed) =>
          /\ calls[obs'.caller].pc = "building"
          /\ calls'[obs'.caller] = IdleCall]_vars

(* an indexProject without force, on a root indexed before, that goes to the
   analyzer after a signal *)
C26_Witness ==
  /\ obs.op = "indexProject.miss" /\ ~obs.force
  /\ signalled[obs.root]
  /\ projectIndexes[obs.root] # Absent

(* C27: on a Valid root, indexProject returns the cached index without
   going to the analyzer exactly when force is false; with force it goes to
   the analyzer, and the build's index replaces the hot entry *)
C27_ForceRefresh ==
  [][/\ (IndexProjectStarts /\ ~(obs'.op = "indexProject" /\ obs'.threw) /\ Valid(obs'.root)) =>
          IF obs'.force
          THEN /\ obs'.op = "indexProject.miss"
               /\ calls'[obs'.caller].pc = "building"
          ELSE /\ obs'.op = "indexProject" /\ ~obs'.analyzed
               /\ obs'.ret = HotIndexOf(cache, obs'.root)
               /\ calls' = calls
     /\ (obs'.op = "indexProject" /\ obs'.analyzed /\ ~obs'.threw /\ obs'.force) =>
          /\ obs'.ret = Some(buildProjectIndex(files[obs'.root], obs'.root, now))
          /\ HotIndexOf(cache', obs'.root) = obs'.ret]_vars

(* a forced indexProject on a Valid root, on its way to the analyzer *)
C27_Witness ==
  /\ obs.op = "indexProject.miss" /\ obs.force
  /\ Valid(obs.root)

(* the timeout a caller allows an index build, in clock units *)
CallerTimeout == 1

(* C28: no build lasts longer than the caller's timeout *)
C28_BuildBounded ==
  \A c \in Callers :
    calls[c].pc = "building" => now - calls[c].startedAt <= CallerTimeout

(* C29: an indexProject that fails in the analyzer leaves the root's hot
   entry, cache directory, registered index and registered project as they
   were *)
C29_FailedBuildLeavesNothing ==
  [][(obs'.op = "indexProject" /\ obs'.threw /\ obs'.analyzed) =>
       /\ HotIndexOf(cache', obs'.root) = HotIndexOf(cache, obs'.root)
       /\ store' = store
       /\ projectIndexes' = projectIndexes
       /\ projects' = projects]_vars

(* C30: on an initialized adapter, an indexProject that went to the
   analyzer fails when the root was inaccessible from its start to its end,
   and for an accessible root with no source file returns an index with no
   symbol and no type *)
C30_FailsIffInaccessible ==
  (obs.op = "indexProject" /\ obs.analyzed /\ isInitialized) =>
    /\ (~obs.existed /\ obs.root \notin accessible) => obs.threw
    /\ (obs.root \in accessible /\ Present(files[obs.root]) = {} /\ ~obs.threw) =>
         /\ DOMAIN obs.ret.val.symbols = {}
         /\ DOMAIN obs.ret.val.types = {}

----------------------------------------------------------------------------
(* Claims about faults of the cold store, its roots and its fingerprints *)

(* C31: no cold-store operation raises to its caller: a save that meets a
   write error returns normally (load, isValid and clear have no raising
   outcome: each runs inside a try block whose catch returns) *)
C31_NoFaultPropagates ==
  (obs.op = "save") => ~obs.threw

----------------------------------------------------------------------------
(* The server's tools over one adapter: index_project and
   clear_project_cache on any project path, the clock, and the watcher's
   callbacks for the paths it watches *)

(* getAdapterForProject: the one TypeScript adapter, initialized with the
   project path of the first tool call that reaches it; the paths watched
   afterwards *)
getAdapterForProject(initialized, watched, projectPath) ==
  IF ~initialized THEN watched \cup { projectPath } ELSE watched

(* handleIndexProject: the adapter, then indexProject run to its end on the
   project (one with no source file) *)
HandleIndexProject(projectPath, force) ==
  /\ watching' = getAdapterForProject(isInitialized, watching, projectPath)
  /\ isInitialized' = TRUE
  /\ LET g == get(cache, stats, now, IndexKey(projectPath)) IN
     /\ g.stats.hits + g.stats.misses <= MaxCalls
     /\ IF g.ret # Absent /\ ~force
        THEN /\ cache' = g.cache
             /\ stats' = g.stats
             /\ obs' = [op |-> "index_project", root |-> projectPath, force |-> force,
                        analyzed |-> FALSE, ret |-> g.ret]
        ELSE LET index == buildProjectIndex(NoFiles, projectPath, now)
                 s == set(g.cache, g.stats, now, IndexKey(projectPath), index, IndexTTLArg)
             IN /\ cache' = s.cache
                /\ stats' = s.stats
                /\ obs' = [op |-> "index_project", root |-> projectPath, force |-> force,
                           analyzed |-> TRUE, ret |-> Some(index)]
  /\ UNCHANGED <<now, cleanupInterval, projectIndexes, projects, pending, calls, signalled>>
  /\ UNCHANGED coldVars

(* handleClearProjectCache: the adapter, then the test for its
   clearProjectDiskCache method; TypeScriptAdapter and BaseLanguageAdapter
   define none, so the handler throws 'Cache clearing not supported by this
   adapter', rethrown as 'Failed to clear cache: ...' *)
HandleClearProjectCache(projectPath) ==
  /\ watching' = getAdapterForProject(isInitialized, watching, projectPath)
  /\ isInitialized' = TRUE
  /\ obs' = [op |-> "clear_project_cache", root |-> projectPath, threw |-> TRUE]
  /\ UNCHANGED <<projectIndexes, projects, pending, calls, signalled>>
  /\ UNCHANGED hotVars
  /\ UNCHANGED coldVars

(* the callback registered by initialize(projectPath) runs for a change
   under a watched path *)
WatcherCallback(projectPath) ==
  /\ projectPath \in watching
  /\ cache' = handleFileChange(cache, projectPath)
  /\ obs' = [op |-> "watcher", root |-> projectPath]
  /\ UNCHANGED <<stats, now, cleanupInterval>>
  /\ UNCHANGED coldVars
  /\ UNCHANGED adapterVars

NextServer ==
  \/ \E projectPath \in ProjectPaths, force \in BOOLEAN :
       HandleIndexProject(projectPath, force)
  \/ \E projectPath \in ProjectPaths : HandleClearProjectCache(projectPath)
  \/ \E projectPath \in ProjectPaths : WatcherCallback(projectPath)
  \/ Tick

SpecServer == InitHot /\ [][NextServer]_vars

(* C32: clear_project_cache completes without error, and afterwards the hot
   tier holds no index for the root and its cache directory is absent *)
C32_ClearCacheCompletes ==
  (obs.op = "clear_project_cache") =>
    /\ ~obs.threw
    /\ HotIndexOf(cache, obs.root) = Absent
    /\ \A r \in Roots : r = obs.root => ~store[r].dir

(* C39: every project path with an index in the hot tier is watched: the
   watcher holds a callback registered for that path *)
C39_IndexedRootsWatched ==
  \A projectPath \in ProjectPaths :
    HotIndexOf(cache, projectPath) # Absent => projectPath \in watching

----------------------------------------------------------------------------
(* The cold store when a save fails part-way through its data files *)

(* saveProjectIndex stopped by a write error (or by the end of the process)
   inside its data writes, on a cache directory left by a save that ran to
   its end. ParquetCache starts its four parquet writes
   together, so any of them may have been written when one fails, and no
   metadata is written; its catch rethrows. DiskCache's only data write
   failed, and its catch returns. *)
TornSave(r, written) ==
  /\ written \subseteq DataFiles(impl) /\ written # DataFiles(impl)
  /\ hist[r].done
  /\ LET index == buildProjectIndex(files[r], r, now)
         w == WriteData(impl, store[r], index, now)
     IN store' = [store EXCEPT ![r] =
          IF impl = "disk" THEN [@ EXCEPT !.dir = TRUE]
          ELSE [f \in DOMAIN EmptyDir |->
                  IF f \in DataFiles(impl) \ written THEN store[r][f] ELSE w[f]]]
  /\ hist' = [hist EXCEPT ![r].saved = Some(buildProjectIndex(files[r], r, now)),
                          ![r].snapshot = Some(files[r]), ![r].done = FALSE]
  /\ obs' = [op |-> "save", root |-> r, threw |-> (impl = "parquet")]
  /\ UNCHANGED <<accessible, impl, files, save, produced>>
  /\ UNCHANGED hotVars
  /\ UNCHANGED adapterVars

NextTorn ==
  \/ \E r \in Roots, p \in Paths : \E m \in MtimesOf(p) : CreateFile(r, p, m)
  \/ \E r \in Roots, p \in Paths : ModifyFile(r, p)
  \/ \E r \in Roots, p \in Paths : DeleteFile(r, p)
  \/ \E r \in Roots : ColdSave(r)
  \/ \E r \in Roots : \E written \in SUBSET (DataFiles("disk") \cup DataFiles("parquet")) :
       TornSave(r, written)
  \/ \E r \in Roots : Load(r)

SpecTorn == InitCold /\ [][NextTorn]_vars

(* each key of an index's dependencies is a key of its modules *)
DependenciesIndexed(index) == DOMAIN index.dependencies \subseteq DOMAIN index.modules

(* C33: the index the analyzer built for a save, and the index a load
   reconstructs, have no dependencies recorded for a module that is not
   among their modules *)
C33_DependenciesHaveModules ==
  /\ \A r \in Roots : hist[r].saved # Absent => DependenciesIndexed(hist[r].saved.val)
  /\ (obs.op = "load" /\ obs.ret # Absent) => DependenciesIndexed(obs.ret.val)

----------------------------------------------------------------------------
(* The cold store used for two project roots at once, a save of one running
   step by step between the operations on the other *)

ColdRoots == { << "p" >>, << "p", "q" >> }

InitRoots ==
  /\ cache = << >>
  /\ stats = [hits |-> 0, misses |-> 0, evictions |-> 0]
  /\ cleanupInterval = "active"
  /\ now = 0
  /\ obs = NoObs
  /\ impl \in { "disk", "parquet" }
  /\ accessible = ColdRoots
  /\ files = [r \in ColdRoots |-> NoFiles]
  /\ store = [r \in ColdRoots |-> EmptyDir]
  /\ save = IdleSave
  /\ produced = [r \in ColdRoots |-> Absent]
  /\ hist = [r \in ColdRoots |-> NoHist]
  /\ InitAdapterIdle

NextRoots ==
  \/ \E r \in ColdRoots : CreateFile(r, "a.ts", 1)
  \/ \E r \in ColdRoots : DeleteFile(r, "a.ts")
  \/ \E r \in ColdRoots : Produce(r)
  \/ \E r \in ColdRoots : SaveBegin(r)
  \/ SaveHashes
  \/ SaveMeta
  \/ SaveInfo
  \/ \E r \in ColdRoots : IsValid(r)
  \/ \E r \in ColdRoots : Load(r)
  \/ \E r \in ColdRoots : ClearProjectCache(r)

SpecRoots == InitRoots /\ [][NextRoots]_vars

(* the step is a cold-store operation, or a step of one, on root r *)
OperatesOn(r) ==
  \/ "root" \in DOMAIN obs' /\ obs'.root = r
  \/ save.pc # "idle" /\ save.root = r
  \/ save'.pc # "idle" /\ save'.root = r

(* C34: a step of save, load, isValid or clear on one root leaves the cache
   directory of every other root as it was, and with it what isValid and
   load return for that root *)
C34_NoCrossRootInterference ==
  [][\A r2 \in ColdRoots :
       (~OperatesOn(r2) /\ files'[r2] = files[r2]) =>
         /\ store'[r2] = store[r2]
         /\ isCacheValid(impl, store'[r2], files'[r2]) = isCacheValid(impl, store[r2], files[r2])
         /\ loadProjectIndex(impl, store'[r2], r2) = loadProjectIndex(impl, store[r2], r2)]_vars

(* a clear of one root's existing cache directory while the other root's
   cache is valid *)
C34_Witness ==
  /\ obs.op = "clearProjectCache" /\ obs.existed
  /\ \E r2 \in ColdRoots \ { obs.root } :
       /\ isCacheValid(impl, store[r2], files[r2])
       /\ loadProjectIndex(impl, store[r2], r2) # Absent

----------------------------------------------------------------------------
(* Claims about the fingerprint comparison *)

(* the fingerprint stored in the metadata file of a root *)
StoredFileHashes(r) == JsonParse(MetadataFile(store[r]).val).fileHashes

(* C35: isValid returns true only when the stored fingerprint and the
   current one have the same set of paths and the same mtime for each path *)
C35_FingerprintsEqual ==
  (obs.op = "isValid" /\ obs.val) =>
    /\ Parses(MetadataFile(store[obs.root]))
    /\ DOMAIN StoredFileHashes(obs.root) = Present(files[obs.root])
    /\ \A p \in Present(files[obs.root]) : StoredFileHashes(obs.root)[p] = files[obs.root][p]

(* an isValid that returned false on a cache of the current version whose
   stored fingerprint has as many paths as the project has source files, one
   file deleted and another added since the save *)
C35_Witness ==
  /\ obs.op = "isValid" /\ ~obs.val
  /\ \A f \in RequiredFiles(impl) : Parses(store[obs.root][f])
  /\ ~StoredVersionDiffers(obs.root)
  /\ Cardinality(DOMAIN StoredFileHashes(obs.root)) = Cardinality(Present(files[obs.root]))
  /\ DOMAIN StoredFileHashes(obs.root) # Present(files[obs.root])

----------------------------------------------------------------------------
(* The adapter over a clock that runs past the ttl of an index entry *)

(* the first instant at which an entry stored at time 0 with the index ttl
   has expired *)
ExpiryHorizon == IndexTTL + 1

Elapse ==
  /\ now < ExpiryHorizon
  /\ now' = now + 1
  /\ obs' = NoObs
  /\ UNCHANGED <<cache, stats, cleanupInterval>>
  /\ UNCHANGED coldVars
  /\ UNCHANGED adapterVars

NextExpiry ==
  \/ \E r \in Roots : Initialize(r)
  \/ \E c \in Callers, r \in Roots, force \in BOOLEAN : IndexStart(c, r, force)
  \/ \E c \in Callers : IndexFinish(c)
  \/ \E r \in Roots, symbolName \in { "A", "f" } : FindSymbol(r, symbolName)
  \/ \E r \in Roots, query \in { "", "a" } : SearchTypes(r, query)
  \/ Elapse

SpecExpiry == Init /\ [][NextExpiry]_vars

(* C36: findSymbol and searchTypes are not answered from an index whose hot
   entry, stored when the index was built, has outlived its ttl *)
C36_ExpiredIndexNotServed ==
  (obs.op \in { "findSymbol", "searchTypes" } /\ ~obs.threw) =>
    ~(now > projectIndexes[obs.root].val.lastIndexed + IndexTTL)

----------------------------------------------------------------------------
(* Claims about what indexProject leaves in the hot tier *)

(* C37: when a file-change signal for a root was handled while a build of
   that root was in flight, the build's end leaves no index of the root in
   the hot tier *)
C37_SignalDuringBuild ==
  [][(/\ obs.op = "handleFileChange"
      /\ obs'.op = "indexProject" /\ obs'.analyzed /\ ~obs'.threw
      /\ obs'.root = obs.root
      /\ calls[obs'.caller].pc = "building") =>
       HotIndexOf(cache', obs'.root) = Absent]_vars

----------------------------------------------------------------------------
(* The adapter's derived per-query results: getTypeDefinition beside
   indexProject, with the source files changing and the watcher signalling *)

(* the operation name "type-definition", one character *)
TypeDefinitionOperation == << "d" >>
(* the gets this part lets the hot cache count *)
MaxQueries == 2 * MaxCalls

(* the declaration of typeName among the source files a Project holds *)
TypeDefinitionIn(project, typeName) ==
  IF typeName = "A" /\ project["a.ts"] # 0
  THEN Some(extractTypesFromFile("a.ts", project["a.ts"])[1])
  ELSE Absent

(* getTypeDefinition(typeName, projectPath) without a context file: the
   cached result if there is one, else the declaration found in the Project,
   cached under the default ttl; null when there is no Project or no such
   declaration *)
getTypeDefinition(c, s, t, project, projectPath, typeName) ==
  LET cacheKey == getCacheKey(projectPath, TypeDefinitionOperation, << << typeName >>, << >> >>)
      g == get(c, s, t, cacheKey)
  IN IF g.ret # Absent THEN [cache |-> g.cache, stats |-> g.stats, ret |-> g.ret, hit |-> TRUE]
     ELSE IF project = Absent
          THEN [cache |-> g.cache, stats |-> g.stats, ret |-> Absent, hit |-> FALSE]
          ELSE LET typeInfo == TypeDefinitionIn(project.val, typeName) IN
               IF typeInfo = Absent
               THEN [cache |-> g.cache, stats |-> g.stats, ret |-> Absent, hit |-> FALSE]
               ELSE LET w == set(g.cache, g.stats, t, cacheKey, typeInfo.val, OmittedTTL)
                    IN [cache |-> w.cache, stats |-> w.stats, ret |-> typeInfo, hit |-> FALSE]

GetTypeDefinition(r, typeName) ==
  /\ IF ~validateProjectPath(r, isInitialized)
     THEN /\ obs' = [op |-> "getTypeDefinition", root |-> r, typeName |-> typeName,
                     threw |-> TRUE]
          /\ UNCHANGED <<cache, stats>>
     ELSE LET d == getTypeDefinition(cache, stats, now, projects[r], r, typeName) IN
          /\ d.stats.hits + d.stats.misses <= MaxQueries
          /\ cache' = d.cache
          /\ stats' = d.stats
          /\ obs' = [op |-> "getTypeDefinition", root |-> r, typeName |-> typeName,
                     threw |-> FALSE, hit |-> d.hit, ret |-> d.ret]
  /\ UNCHANGED <<now, cleanupInterval>>
  /\ UNCHANGED coldVars
  /\ UNCHANGED adapterVars

(* indexProject run from its start to its end with no other step between *)
IndexProject(r, force) ==
  /\ IF ~validateProjectPath(r, isInitialized)
     THEN /\ obs' = [op |-> "indexProject", root |-> r, threw |-> TRUE, analyzed |-> FALSE]
          /\ UNCHANGED <<cache, stats, projectIndexes, projects, signalled>>
     ELSE LET g == get(cache, stats, now, IndexKey(r)) IN
          /\ g.stats.hits + g.stats.misses <= MaxQueries
          /\ IF g.ret # Absent /\ ~force
             THEN /\ cache' = g.cache
                  /\ stats' = g.stats
                  /\ projectIndexes' = [projectIndexes EXCEPT ![r] = g.ret]
                  /\ obs' = [op |-> "indexProject", root |-> r, threw |-> FALSE,
                             analyzed |-> FALSE, force |-> force, ret |-> g.ret]
                  /\ UNCHANGED <<projects, signalled>>
             ELSE LET index == buildProjectIndex(files[r], r, now)
                      s == set(g.cache, g.stats, now, IndexKey(r), index, IndexTTLArg)
                  IN /\ cache' = s.cache
                     /\ stats' = s.stats
                     /\ projects' = [projects EXCEPT ![r] = Some(files[r])]
                     /\ projectIndexes' = [projectIndexes EXCEPT ![r] = Some(index)]
                     /\ signalled' = [signalled EXCEPT ![r] = FALSE]
                     /\ obs' = [op |-> "indexProject", root |-> r, threw |-> FALSE,
                                analyzed |-> TRUE, force |-> force, ret |-> Some(index)]
  /\ UNCHANGED <<now, cleanupInterval, isInitialized, watching, pending, calls>>
  /\ UNCHANGED coldVars

NextDerived ==
  \/ \E r \in Roots : Initialize(r)
  \/ \E r \in Roots, force \in BOOLEAN : IndexProject(r, force)
  \/ \E r \in Roots : GetTypeDefinition(r, "A")
  \/ \E r \in Roots, p \in Paths : \E m \in {0} \cup MtimesOf(p) : SourceChanges(r, p, m)
  \/ \E r \in Roots : HandleFileChange(r)

SpecDerived == Init /\ [][NextDerived]_vars

(* C38: right after an indexProject with force has stored a new index, and
   with every file-change signal handled, a type definition returned for the
   root is the one declared in the Project of that new index, never one
   cached from the index before *)
C38_NoStaleDerived ==
  [][(/\ obs.op = "indexProject" /\ ~obs.threw /\ obs.analyzed /\ obs.force
      /\ obs'.op = "getTypeDefinition" /\ ~obs'.threw /\ obs'.root = obs.root
      /\ pending[obs.root] = Absent) =>
       obs'.ret = TypeDefinitionIn(projects[obs.root].val, obs'.typeName)]_vars

----------------------------------------------------------------------------
(* Claims about set on a key the cache holds *)

(* C40: a set on a key already in the cache replaces that key's entry (the
   new value, stored now, with the new ttl) and leaves every other entry as
   it was, at capacity too *)
C40_SetExistingKeepsOthers ==
  [][(obs'.op = "set" /\ obs'.key \in CacheKeys(cache)) =>
       /\ CacheKeys(cache') = CacheKeys(cache)
       /\ \A i \in 1..Len(cache) :
            cache[i].key # obs'.key => cache[i] \in SeqToSet(cache')
       /\ NewEntry.timestamp = now]_vars

====
